---- MODULE Spec2Model ----
(***************************************************************************)
(* A state-machine model of qlsc/qlsc_base.py: the QLSC pixelization       *)
(* scheme (argument validation in front of the native Q3C kernel) and the  *)
(* QLSCIndex point store with its bulk insertion and its radial query.     *)
(*                                                                         *)
(* Python values are tagged records: None, a number, a list.  Angles and   *)
(* face coordinates are integers (degrees, face units).  The native        *)
(* kernel (_q3c_wrapper) and utilities._normalize_ang are outside the      *)
(* modelled file; they are stood in for by the k_* operators below.        *)
(***************************************************************************)
EXTENDS Integers, Sequences, FiniteSets, Bags, TLC

(***************************************************************************)
(* Bounds of the model.                                                    *)
(***************************************************************************)
\* Largest bin_level a modelled scheme is built with (the code allows 0..30).
MaxBinLevel == 1
\* Bulk inputs run up to BatchSize + MaxExtra rows.
MaxExtra == 3
\* Longest explicit (ra, dec) list handed to add_points in the small model.
MaxListLen == 2
\* Most rows the store holds in the small model; no bulk call starts on more.
MaxRows == 2
\* Largest query radius, in degrees.
MaxRadius == 2

\* Largest bin_level whose nbins the scheme model computes: 6 * 4^bin_level
\* has to stay inside the integers of the model checker.
MaxSchemeLevel == 13
\* Largest depth ipixcenter is evaluated at (the code allows 1..30).
MaxDepth == 14

(***************************************************************************)
(* Program constants.                                                      *)
(***************************************************************************)
\* add_points: "if count > 50000"
BatchSize == 50000
\* _radial_match: boundary indices 0..99 per zone, i.e. 50 (lo, hi) pairs
NPairs == 50
\* QLSC.__init__: "if not (0 <= bin_level <= 30)"
MaxLevelQ3C == 30
\* ipixcenter: "if not (1 <= depth <= 30)"
MaxDepthQ3C == 30

(***************************************************************************)
(* Python values.                                                          *)
(***************************************************************************)
None == [k |-> "none"]
Num(v) == [k |-> "num", v |-> v]
\* an explicit list
List(s) == [k |-> "list", v |-> s]
\* the list [x] * n, kept by length and element
Rep(n, x) == [k |-> "rep", n |-> n, x |-> x]

IsNone(a) == a.k = "none"
IsNum(a) == a.k = "num"
IsList(a) == a.k \in {"list", "rep"}
PyLen(a) == IF a.k = "list" THEN Len(a.v) ELSE a.n
\* a[i], i counted from 0 as in Python; the caller checks the index
PyAt(a, i) == IF a.k = "list" THEN a.v[i + 1] ELSE a.x
\* bool(a): None and 0 and the empty list are false
Truthy(a) ==
    CASE a.k = "none" -> FALSE
      [] a.k = "num" -> a.v # 0
      [] OTHER -> PyLen(a) > 0
\* the elements of a list, as a set
PyElems(a) == IF a.k = "list" THEN {a.v[j] : j \in 1..Len(a.v)}
              ELSE IF a.n > 0 THEN {a.x} ELSE {}

SeqMin(S) == CHOOSE m \in S : \A x \in S : m <= x
SeqMax(S) == CHOOSE m \in S : \A x \in S : m >= x

RECURSIVE Pow2(_)
Pow2(e) == IF e = 0 THEN 1 ELSE 2 * Pow2(e - 1)

(***************************************************************************)
(* The native kernel, by its interface: _q3c_wrapper and                   *)
(* utilities._normalize_ang.  A kernel call is logged as a tuple           *)
(* <<name, arguments...>>; a result the model never computes with is kept  *)
(* as the opaque term KRes(call).                                          *)
(***************************************************************************)
KRes(call) == [k |-> "kres", call |-> call]
\* component j of an opaque tuple result
KPart(call, j) == [k |-> "kres", call |-> call, part |-> j]

\* init_q3c(nside) followed by nside(hprm): the handle remembers nside
k_nside(bl) == Pow2(bl)

\* normalize_ang: ra wrapped modulo 360, dec reflected into [-90, 90]
\* (clamped when a reflection does not reach the range)
k_normalize_ang(ra, dec) ==
    LET d1 == IF dec > 90 THEN 180 - dec ELSE IF dec < -90 THEN -180 - dec ELSE dec
        d2 == IF d1 > 90 THEN 90 ELSE IF d1 < -90 THEN -90 ELSE d1
        r1 == IF d1 # dec THEN ra + 180 ELSE ra
    IN  <<r1 % 360, d2>>

\* ang2ipix(hprm, ra, dec): a pixel id in [0, nbins).  Face 0 is the top,
\* 1..4 the sides, 5 the bottom; the cells of a face are numbered row by row.
\* The kernel itself unwraps ra and forces dec beyond the poles to the pole.
k_ang2ipix(bl, ra, dec) ==
    LET ns == k_nside(bl)
        d  == IF dec > 90 THEN 90 ELSE IF dec < -90 THEN -90 ELSE dec
        r  == ra % 360
        face == IF d > 45 THEN 0 ELSE IF d < -45 THEN 5 ELSE 1 + (((r + 45) % 360) \div 90)
        ix == IF face \in {0, 5} THEN (r * ns) \div 360
              ELSE (((r + 45) % 90) * ns) \div 90
        iy == IF face = 0 THEN ((90 - d) * ns) \div 45
              ELSE IF face = 5 THEN ((90 + d) * ns) \div 45
              ELSE ((d + 45) * ns) \div 91
    IN  face * ns * ns + iy * ns + ix

(***************************************************************************)
(* The outcome of a call: how it ended, the kernel calls it made, in       *)
(* order, and the value it returned.                                       *)
(***************************************************************************)
Returned(kc, val) == [st |-> "ok", kc |-> kc, val |-> val]
Raised(err) == [st |-> err, kc |-> <<>>, val |-> None]

(***************************************************************************)
(* class QLSC                                                              *)
(***************************************************************************)
\* QLSC.nside
nside(bl) == k_nside(bl)

\* QLSC.nbins: int(pow(self.nside, 2)) * 6
nbins_Linear(bl) == nside(bl) * 6

nbins(bl) == (nside(bl) * nside(bl)) * 6

\* The range test of the vector branch of ang2ipix.
ang2ipix_vector_check(ra, dec) ==
    IF ~IsList(dec) THEN "TypeError"                \* min(dec) of a non-iterable
    ELSE IF PyLen(dec) = 0 THEN "ValueError"        \* min() of an empty sequence
    ELSE IF ~(SeqMin(PyElems(dec)) >= -90 /\ SeqMax(PyElems(dec)) <= 90) THEN "ValueError"
    ELSE IF PyLen(ra) = 0 THEN "ValueError"
    ELSE IF ~(SeqMin(PyElems(ra)) >= 0 /\ SeqMax(PyElems(ra)) <= 360) THEN "ValueError"
    ELSE "ok"

\* QLSC.ang2ipix(ra, dec, points)
ang2ipix(bl, ra, dec, points) ==
    IF IsNone(points) /\ (IsNone(ra) \/ IsNone(dec)) THEN Raised("ValueError")
    ELSE IF ~IsNone(points) /\ (~IsNone(ra) \/ ~IsNone(dec)) THEN Raised("ValueError")
    ELSE IF IsList(ra) THEN
        \* isinstance(ra, Iterable): each range is tested, nothing is normalized
        IF ang2ipix_vector_check(ra, dec) # "ok" THEN Raised(ang2ipix_vector_check(ra, dec))
        ELSE Returned(<< <<"ang2ipix", ra, dec>> >>, KRes(<<"ang2ipix", ra, dec>>))
    ELSE IF ~IsNum(dec) \/ ~IsNum(ra) THEN
        \* -90 <= dec <= 90 with dec None (the 'points' form) or a list
        Raised("TypeError")
    ELSE
        LET inrange == (-90 <= dec.v /\ dec.v <= 90) /\ (0 <= ra.v /\ ra.v <= 360)
            n == IF inrange THEN <<ra.v, dec.v>> ELSE k_normalize_ang(ra.v, dec.v)
        IN  IF IsNone(points)
            THEN Returned(<< <<"ang2ipix", n[1], n[2]>> >>, Num(k_ang2ipix(bl, n[1], n[2])))
            ELSE \* np.vectorize over the rows of 'points'
                 Returned([j \in 1..PyLen(points) |->
                              <<"ang2ipix", PyAt(points, j - 1)[1], PyAt(points, j - 1)[2]>>],
                          List([j \in 1..PyLen(points) |->
                              k_ang2ipix(bl, PyAt(points, j - 1)[1], PyAt(points, j - 1)[2])]))

\* QLSC.ipix2ang(ipix)
ipix2ang(bl, ipix) ==
    IF ~IsNum(ipix) THEN Raised("ValueError")
    ELSE IF ~(0 <= ipix.v /\ ipix.v < nbins(bl)) THEN Raised("ValueError")
    ELSE Returned(<< <<"ipix2ang", ipix.v>> >>, KRes(<<"ipix2ang", ipix.v>>))

\* QLSC.ipix2xy(ipix)
ipix2xy(bl, ipix) ==
    Returned(<< <<"ipix2xy", ipix.v>> >>, KRes(<<"ipix2xy", ipix.v>>))

\* QLSC.xy2ang(facenum, x, y, points)
xy2ang(facenum, x, y, points) ==
    IF IsNone(facenum) THEN Raised("ValueError")
    ELSE IF ~(0 <= facenum.v /\ facenum.v <= 5) THEN Raised("ValueError")
    ELSE IF ~IsNone(x) /\ ~IsNone(y) /\ ~IsNone(points) THEN Raised("ValueError")
    ELSE IF IsNone(points) /\ (IsNone(x) \/ IsNone(y)) THEN Raised("ValueError")
    ELSE IF IsNone(points) /\ (~(-1 <= x.v /\ x.v <= 1) /\ ~(-1 <= y.v /\ y.v <= 1))
        THEN Raised("ValueError")
    ELSE IF ~IsNone(points) THEN
        Returned([j \in 1..PyLen(points) |->
                     <<"xy2ang", PyAt(points, j - 1)[1], PyAt(points, j - 1)[2], facenum.v>>],
                 List([j \in 1..PyLen(points) |->
                     KRes(<<"xy2ang", PyAt(points, j - 1)[1], PyAt(points, j - 1)[2], facenum.v>>)]))
    ELSE Returned(<< <<"xy2ang", x.v, y.v, facenum.v>> >>, KRes(<<"xy2ang", x.v, y.v, facenum.v>>))

\* QLSC.face_number(ra, dec, ipix)
face_number(bl, ra, dec, ipix) ==
    IF Truthy(ipix) /\ (~IsNone(ra) \/ ~IsNone(dec)) THEN Raised("ValueError")
    ELSE IF (~IsNone(ra) \/ ~IsNone(dec)) /\ ~(~IsNone(ra) /\ ~IsNone(dec)) THEN Raised("ValueError")
    ELSE IF Truthy(ipix) THEN
        IF ~(0 <= ipix.v /\ ipix.v < nbins(bl)) THEN Raised("ValueError")
        ELSE \* ra, dec = self.ipix2ang(ipix), then the kernel's facenum
             LET a == ipix2ang(bl, ipix)
                 c == <<"facenum", KPart(a.kc[1], 1), KPart(a.kc[1], 2)>>
             IN  Returned(a.kc \o <<c>>, KRes(c))
    ELSE IF IsNone(dec) THEN Raised("TypeError")     \* -90 <= None
    ELSE IF ~(-90 <= dec.v /\ dec.v <= 90) THEN Raised("ValueError")
    ELSE IF ~(-360 <= ra.v /\ ra.v <= 360) THEN Raised("ValueError")
    ELSE Returned(<< <<"facenum", ra.v, dec.v>> >>, KRes(<<"facenum", ra.v, dec.v>>))

\* QLSC.__init__: the test of bin_level
bin_level_ok_Strict(b) == 0 < b /\ b < MaxLevelQ3C

bin_level_ok(b) == 0 <= b /\ b <= MaxLevelQ3C

\* QLSC.__init__(bin_level).  'handle' tells whether init_q3c returned a
\* handle or None.
QLSC__init__(b, handle) ==
    IF ~bin_level_ok(b) THEN Raised("ValueError")
    ELSE LET ns == Pow2(b)                  \* nside = int(pow(2, bin_level))
         IN  IF handle
             THEN Returned(<< <<"init_q3c", ns>> >>, None)
             ELSE [st |-> "Exception", kc |-> << <<"init_q3c", ns>> >>, val |-> None]

\* ipixcenter: (p >> (2*depth) << (2*depth)) + (1 << (2 * (depth-1))) - 1
ipixcenter_value_NoMask(p, depth) == p + Pow2(2 * (depth - 1)) - 1

ipixcenter_value(p, depth) ==
    ((p \div Pow2(2 * depth)) * Pow2(2 * depth)) + Pow2(2 * (depth - 1)) - 1

\* QLSC.ipixcenter(ra, dec, depth): ra and dec go to the kernel as they are
ipixcenter(bl, ra, dec, depth) ==
    IF ~(1 <= depth /\ depth <= MaxDepthQ3C) THEN Raised("ValueError")
    ELSE Returned(<< <<"ang2ipix", ra, dec>> >>,
                  Num(ipixcenter_value(k_ang2ipix(bl, ra, dec), depth)))

\* ipix2xy(hprm, ipix): the face of the pixel and the lower-left corner of
\* its cell, the cells numbered as in k_ang2ipix.  Face coordinates run over
\* [-1, 1]; here they are carried in units of 1/nside, a cell being 2 wide.
k_ipix2xy(bl, ipix) ==
    LET ns == k_nside(bl)
        cell == ipix % (ns * ns)
    IN  <<ipix \div (ns * ns), 2 * (cell % ns) - ns, 2 * (cell \div ns) - ns>>

\* QLSC.ipix2polygon(ipix, duplicate_endpoint)
ipix2polygon(bl, ipix, duplicate_endpoint) ==
    IF IsNone(ipix) THEN Raised("ValueError")
    ELSE IF ~(0 <= ipix.v /\ ipix.v < nbins(bl)) THEN Raised("ValueError")
    ELSE
        LET d == 2                        \* d = 2/self.nside, in units of 1/nside
            c == ipix2xy(bl, ipix)
            t == k_ipix2xy(bl, ipix.v)    \* facenum, x, y = self.ipix2xy(ipix)
            x == t[2]
            y == t[3]
            built == IF duplicate_endpoint
                     THEN << <<x, y>>, <<x + d, y>>, <<x + d, y + d>>, <<x, y + d>>, <<x, y>> >>
                     ELSE << <<x, y>>, <<x + d, y>>, <<x + d, y + d>>, <<x, y + d>> >>
            \* if duplicate_endpoint == True: polygon = polygon[:-1]
            polygon == IF duplicate_endpoint = TRUE
                       THEN SubSeq(built, 1, Len(built) - 1)
                       ELSE built
            a == xy2ang(Num(t[1]), None, None, List(polygon))
        IN  IF a.st # "ok" THEN a ELSE Returned(c.kc \o a.kc, a.val)

(***************************************************************************)
(* The kernel's part in a radial query.                                    *)
(***************************************************************************)
\* 10^6 * sin^2(d/2) for d = 0..180 degrees, rounded: the half-angle
\* (haversine) value the chord-distance metric and its threshold are in.
HavMicro ==
    <<
       0, 76, 305, 685, 1218, 1903, 2739, 3727, 4866, 6156,
       7596, 9186, 10926, 12815, 14852, 17037, 19369, 21848, 24472, 27241,
       30154, 33210, 36408, 39748, 43227, 46846, 50603, 54497, 58526, 62690,
       66987, 71416, 75976, 80665, 85481, 90424, 95492, 100682, 105995, 111427,
       116978, 122645, 128428, 134323, 140330, 146447, 152671, 159001, 165435, 171970,
       178606, 185340, 192169, 199092, 206107, 213212, 220404, 227680, 235040, 242481,
       250000, 257595, 265264, 273005, 280814, 288691, 296632, 304634, 312697, 320816,
       328990, 337216, 345492, 353814, 362181, 370590, 379039, 387524, 396044, 404596,
       413176, 421783, 430413, 439065, 447736, 456422, 465122, 473832, 482550, 491274,
       500000, 508726, 517450, 526168, 534878, 543578, 552264, 560935, 569587, 578217,
       586824, 595404, 603956, 612476, 620961, 629410, 637819, 646186, 654508, 662784,
       671010, 679184, 687303, 695366, 703368, 711309, 719186, 726995, 734736, 742405,
       750000, 757519, 764960, 772320, 779596, 786788, 793893, 800908, 807831, 814660,
       821394, 828030, 834565, 840999, 847329, 853553, 859670, 865677, 871572, 877355,
       883022, 888573, 894005, 899318, 904508, 909576, 914519, 919335, 924024, 928584,
       933013, 937310, 941474, 945503, 949397, 953154, 956773, 960252, 963592, 966790,
       969846, 972759, 975528, 978152, 980631, 982963, 985148, 987185, 989074, 990814,
       992404, 993844, 995134, 996273, 997261, 998097, 998782, 999315, 999695, 999924,
       1000000
    >>

\* angular separation in whole degrees, at most 180
k_separation(ra, dec, cra, cdec) ==
    LET dr == (ra - cra) % 360
        wr == IF dr > 180 THEN 360 - dr ELSE dr
        dd == IF dec >= cdec THEN dec - cdec ELSE cdec - dec
    IN  IF wr + dd > 180 THEN 180 ELSE wr + dd

\* sindist(ra, dec, center_ra, center_dec): the normalized chord-distance
\* metric, sin^2 of half the separation
k_sindist(ra, dec, cra, cdec) == HavMicro[k_separation(ra, dec, cra, cdec) + 1]

\* The covers a kernel may answer with.  A kernel variant places one
\* interval per zone, in pair number 'slot' of the zone's 50 pairs: it starts
\* 'lo' pixels from the center's pixel and ends 'hi' + radius pixels from it.
\* Every other pair is the empty interval [1, -1).  One zone holds the wider
\* interval, in the first or in the last pair; the other zone holds the
\* narrower one at the other end.
Kernels ==
    {[z1 |-> [slot |-> s, lo |-> -w, hi |-> w],
      z0 |-> [slot |-> NPairs - 1 - s, lo |-> w - 1, hi |-> 0]] :
        s \in {0, NPairs - 1}, w \in {0, 1}}

\* radial_query_it(hprm, center_ra, center_dec, radius, index, zone):
\* boundary number 'index' (0..99) of the zone; even indices are lower
\* bounds, odd ones the matching upper bounds
k_radial_query_it(bl, kn, cra, cdec, radius, index, zone) ==
    LET z == IF zone = 1 THEN kn.z1 ELSE kn.z0
        c == k_ang2ipix(bl, cra, cdec)
    IN  IF index \div 2 # z.slot THEN (IF index % 2 = 0 THEN 1 ELSE -1)
        ELSE IF index % 2 = 0 THEN c + z.lo
        ELSE c + z.hi + radius

(***************************************************************************)
(* State.                                                                  *)
(***************************************************************************)
VARIABLES
    bin_level,   \* QLSC.bin_level of the scheme the index uses
    kern,        \* which cover the native kernel answers radial queries with
    committed,   \* qlsc_table: the rows of committed transactions (a bag)
    pending,     \* the rows of the connection's open transaction (a bag)
    pc,          \* "idle", or "loop" inside add_points
    loc,         \* the locals of the add_points call in flight
    ret          \* the most recent call: its arguments and how it ended

vars == <<bin_level, kern, committed, pending, pc, loc, ret>>

NoCall == [op |-> "none"]

(***************************************************************************)
(* class QLSCIndex                                                         *)
(***************************************************************************)
\* QLSCIndex.number_of_points: SELECT COUNT(*) on the index's own
\* connection, which sees its open transaction
number_of_points == BagCardinality(committed (+) pending)

\* connection.commit(): the rows of the open transaction join the table
CommitRows_Lost(table, open) == table

CommitRows(table, open) == table (+) open

\* The coarse test of _radial_match: ipix lies in one of the 50 half-open
\* intervals [index 2j, index 2j+1) of zone 1 or of zone 0.
InIntervals_Closed(bl, kn, ipix, cra, cdec, radius) ==
    \E j \in 0..(NPairs - 1), z \in {0, 1} :
        /\ ipix >= k_radial_query_it(bl, kn, cra, cdec, radius, 2 * j, z)
        /\ ipix <= k_radial_query_it(bl, kn, cra, cdec, radius, 2 * j + 1, z)

InIntervals_Zone0Only(bl, kn, ipix, cra, cdec, radius) ==
    \E j \in 0..(NPairs - 1) :
        /\ ipix >= k_radial_query_it(bl, kn, cra, cdec, radius, 2 * j, 0)
        /\ ipix <  k_radial_query_it(bl, kn, cra, cdec, radius, 2 * j + 1, 0)

InIntervals(bl, kn, ipix, cra, cdec, radius) ==
    \/ \E j \in 0..(NPairs - 1) :
          /\ ipix >= k_radial_query_it(bl, kn, cra, cdec, radius, 2 * j, 1)
          /\ ipix <  k_radial_query_it(bl, kn, cra, cdec, radius, 2 * j + 1, 1)
    \/ \E j \in 0..(NPairs - 1) :
          /\ ipix >= k_radial_query_it(bl, kn, cra, cdec, radius, 2 * j, 0)
          /\ ipix <  k_radial_query_it(bl, kn, cra, cdec, radius, 2 * j + 1, 0)

\* pow(sin(deg2rad(radius)/2.), 2)
Threshold(radius) == HavMicro[radius + 1]

\* QLSCIndex._radial_match(ra, dec, center_ra, center_dec, radius), for a
\* row whose ang2ipix call returns
_radial_match(bl, kn, ra, dec, cra, cdec, radius) ==
    LET ipix == ang2ipix(bl, ra, dec, None).val.v
    IN  /\ InIntervals(bl, kn, ipix, cra, cdec, radius)
        /\ k_sindist(ra.v, dec.v, cra, cdec) < Threshold(radius)

\* QLSCIndex.radial_query(center_ra, center_dec, radius) over the rows the
\* connection sees: the matching rows, each as often as it is stored; the
\* error of the first row whose ang2ipix call raises
radial_query(bl, kn, rows, cra, cdec, radius) ==
    LET R == BagToSet(rows)
        bad == {r \in R : ang2ipix(bl, r[1], r[2], None).st # "ok"}
        hit == {r \in R \ bad : _radial_match(bl, kn, r[1], r[2], cra, cdec, radius)}
    IN  IF bad # {}
        THEN Raised(ang2ipix(bl, (CHOOSE r \in bad : TRUE)[1], (CHOOSE r \in bad : TRUE)[2], None).st)
        ELSE Returned(<<>>, [r \in hit |-> CopiesIn(r, rows)])

(***************************************************************************)
(* Arguments the calls are made with.                                      *)
(***************************************************************************)
BinLevels == 0..MaxBinLevel

\* degrees, in and out of [0, 360] and [-90, 90]
RaArgs == {None, Num(-10), Num(0), Num(180), Num(360), Num(370),
           List(<<0, 360>>), List(<<0, 361>>), List(<<-1, 10>>)}
DecArgs == {None, Num(-91), Num(-90), Num(0), Num(90), Num(91),
            List(<<0, 90>>), List(<<0, 91>>), List(<<-91, 0>>)}
AngPointsArgs == {None, List(<< <<0, 0>>, <<10, 45>> >>), List(<< <<0, 0>>, <<10, 91>> >>),
                  List(<< <<361, 0>> >>)}
IpixArgs(bl) == {Num(-1), Num(0), Num(1), Num(nbins(bl) - 1), Num(nbins(bl)), Num(nbins(bl) + 1)}
FaceArgs == {None, Num(-1), Num(0), Num(5), Num(6)}
XYArgs == {None, Num(-2), Num(-1), Num(0), Num(1), Num(2)}
XYPointsArgs == {None, List(<< <<0, 0>>, <<1, -1>> >>), List(<< <<0, 0>>, <<2, 0>> >>),
                 List(<< <<0, -2>> >>)}
FaceRaArgs == {None, Num(-361), Num(-10), Num(0), Num(360), Num(361)}
FaceDecArgs == {None, Num(-91), Num(0), Num(90), Num(91)}

\* A finished call of a QLSC method: its name, its arguments, its outcome.
Done(op, a, r) == [op |-> op, a |-> a, st |-> r.st, kc |-> r.kc, val |-> r.val]

IndexUnchanged == UNCHANGED <<bin_level, kern, committed, pending, pc, loc>>

(***************************************************************************)
(* Calls of the QLSC methods.                                              *)
(***************************************************************************)
CallAng2ipix ==
    /\ pc = "idle"
    /\ \E ra \in RaArgs, dec \in DecArgs, points \in AngPointsArgs :
          ret' = Done("ang2ipix", [ra |-> ra, dec |-> dec, points |-> points],
                      ang2ipix(bin_level, ra, dec, points))
    /\ IndexUnchanged

CallIpix2ang ==
    /\ pc = "idle"
    /\ \E ipix \in IpixArgs(bin_level) \cup {None} :
          ret' = Done("ipix2ang", [ipix |-> ipix], ipix2ang(bin_level, ipix))
    /\ IndexUnchanged

CallIpix2xy ==
    /\ pc = "idle"
    /\ \E ipix \in IpixArgs(bin_level) :
          ret' = Done("ipix2xy", [ipix |-> ipix], ipix2xy(bin_level, ipix))
    /\ IndexUnchanged

CallXy2ang ==
    /\ pc = "idle"
    /\ \E facenum \in FaceArgs, x \in XYArgs, y \in XYArgs, points \in XYPointsArgs :
          ret' = Done("xy2ang", [facenum |-> facenum, x |-> x, y |-> y, points |-> points],
                      xy2ang(facenum, x, y, points))
    /\ IndexUnchanged

CallFaceNumber ==
    /\ pc = "idle"
    /\ \E ra \in FaceRaArgs, dec \in FaceDecArgs, ipix \in IpixArgs(bin_level) \cup {None} :
          ret' = Done("face_number", [ra |-> ra, dec |-> dec, ipix |-> ipix],
                      face_number(bin_level, ra, dec, ipix))
    /\ IndexUnchanged

CallIpix2polygon ==
    /\ pc = "idle"
    /\ \E ipix \in IpixArgs(bin_level) \cup {None}, duplicate_endpoint \in BOOLEAN :
          ret' = Done("ipix2polygon",
                      [ipix |-> ipix, duplicate_endpoint |-> duplicate_endpoint],
                      ipix2polygon(bin_level, ipix, duplicate_endpoint))
    /\ IndexUnchanged

(***************************************************************************)
(* The scheme alone: a QLSC built with some bin_level, its methods called  *)
(* in any order.                                                           *)
(***************************************************************************)
InitQLSC ==
    /\ bin_level \in BinLevels
    /\ kern = CHOOSE kz \in Kernels : TRUE
    /\ committed = EmptyBag
    /\ pending = EmptyBag
    /\ pc = "idle"
    /\ loc = NoCall
    /\ ret = NoCall

NextQLSC ==
    \/ CallAng2ipix
    \/ CallIpix2ang
    \/ CallIpix2xy
    \/ CallXy2ang
    \/ CallFaceNumber
    \/ CallIpix2polygon

SpecQLSC == InitQLSC /\ [][NextQLSC]_vars

(***************************************************************************)
(* The scheme from its construction: QLSC(bin_level) with any bin_level    *)
(* around [0, 30] and either outcome of the kernel's init, then the        *)
(* properties nside and nbins, ipixcenter and the other methods.           *)
(***************************************************************************)
CtorArgs == (-1)..(MaxLevelQ3C + 1)
CenterRaArgs == {0, 100, 181, 275}
CenterDecArgs == {-90, -46, 0, 31, 77}
DepthArgs == {0, MaxDepthQ3C + 1} \cup (1..MaxDepth)

\* a QLSC object exists: its constructor returned
Constructed == pc = "idle"

ReadNside ==
    /\ Constructed
    /\ ret' = Done("nside", <<>>, Returned(<< <<"nside">> >>, Num(nside(bin_level))))
    /\ IndexUnchanged

ReadNbins ==
    /\ Constructed
    /\ ret' = Done("nbins", <<>>, Returned(<< <<"nside">> >>, Num(nbins(bin_level))))
    /\ IndexUnchanged

CallIpixcenter ==
    /\ Constructed
    /\ \E ra \in CenterRaArgs, dec \in CenterDecArgs, depth \in DepthArgs :
          ret' = Done("ipixcenter", [ra |-> ra, dec |-> dec, depth |-> depth],
                      ipixcenter(bin_level, ra, dec, depth))
    /\ IndexUnchanged

\* The state a call QLSC(bin_level) leaves: the object, or no object when
\* the constructor raised.
InitScheme ==
    /\ \E b \in CtorArgs, handle \in BOOLEAN :
          /\ ret = Done("__init__", [bin_level |-> b, handle |-> handle],
                        QLSC__init__(b, handle))
          /\ bin_level = b
          /\ pc = IF QLSC__init__(b, handle).st = "ok" THEN "idle" ELSE "failed"
    /\ kern = CHOOSE kz \in Kernels : TRUE
    /\ committed = EmptyBag
    /\ pending = EmptyBag
    /\ loc = NoCall

NextScheme ==
    \/ ReadNside
    \/ Constructed /\ bin_level <= MaxSchemeLevel /\ ReadNbins
    \/ Constructed /\ bin_level <= MaxSchemeLevel /\ CallIpixcenter
    \* the methods of NextQLSC keep no state: they are called on the scheme
    \* as constructed
    \/ ret.op = "__init__" /\ Constructed /\ bin_level <= MaxBinLevel /\ NextQLSC

SpecScheme == InitScheme /\ [][NextScheme]_vars

(***************************************************************************)
(* QLSCIndex.add_point and QLSCIndex.add_points.                           *)
(***************************************************************************)
\* The argument test that opens add_points: any([...]), all([...]) and
\* "points is None" judge by truth value, so an empty list counts as absent.
add_points_check(ra, dec, points) ==
    IF ~(Truthy(ra) \/ Truthy(dec) \/ Truthy(points)) THEN "ValueError"
    ELSE IF Truthy(ra) /\ Truthy(dec) /\ Truthy(points) THEN "ValueError"
    ELSE IF IsNone(points) /\ ~(Truthy(ra) /\ Truthy(dec)) THEN "ValueError"
    ELSE "ok"

\* "if ra:" chooses the loop; its length is len(ra) or that of 'points'
LoopLen(l) == IF Truthy(l.ra) THEN PyLen(l.ra) ELSE PyLen(l.points)

\* The row iteration l.i binds to the INSERT, or the error met on the way:
\* dec[i] of None, dec[i] past the end of dec.
add_points_row(l) ==
    IF Truthy(l.ra) THEN
        IF ~IsList(l.dec) THEN [st |-> "TypeError"]
        ELSE IF l.i >= PyLen(l.dec) THEN [st |-> "IndexError"]
        ELSE [st |-> "ok", row |-> <<Num(PyAt(l.ra, l.i)), Num(PyAt(l.dec, l.i))>>]
    ELSE [st |-> "ok", row |-> <<Num(PyAt(l.points, l.i)[1]), Num(PyAt(l.points, l.i)[2])>>]

\* "if count > 50000": the open transaction is committed after this row
CommitNow(count) == count > BatchSize

\* What "with self.data_source:" leaves of the table when an exception
\* leaves the block: the open transaction is rolled back
AfterRollback_Emptied == EmptyBag

AfterRollback_Kept == committed (+) pending

AfterRollback == committed

\* A finished add_points call: rows is the number of rows inserted by it
\* before it ended, commits the number of commit() calls inside the loop.
AddPointsDone(l, st) ==
    [op |-> "add_points", a |-> [ra |-> l.ra, dec |-> l.dec, points |-> l.points],
     st |-> st, before |-> l.before, rows |-> l.i, commits |-> l.commits]

\* add_point(ra, dec): one INSERT in a transaction of its own
AddPoint(row) ==
    /\ pc = "idle"
    /\ committed' = committed (+) SetToBag({row})
    /\ ret' = [op |-> "add_point", a |-> [ra |-> row[1], dec |-> row[2]], st |-> "ok",
               before |-> number_of_points]
    /\ UNCHANGED <<bin_level, kern, pending, pc, loc>>

\* add_point whose INSERT raises: an IntegrityError is turned into
\* NotImplementedError, any other sqlite3 error is passed on
AddPointError(row, err) ==
    /\ pc = "idle"
    /\ committed' = AfterRollback
    /\ ret' = [op |-> "add_point", a |-> [ra |-> row[1], dec |-> row[2]], st |-> err,
               before |-> number_of_points]
    /\ UNCHANGED <<bin_level, kern, pending, pc, loc>>

\* add_points(ra, dec, points): the argument test, then the loop is entered
AddPointsCall(ra, dec, points) ==
    /\ pc = "idle"
    /\ LET l == [ra |-> ra, dec |-> dec, points |-> points, i |-> 0, count |-> 0,
                 before |-> number_of_points, commits |-> 0]
       IN  IF add_points_check(ra, dec, points) # "ok"
           THEN /\ ret' = AddPointsDone(l, add_points_check(ra, dec, points))
                /\ UNCHANGED <<pc, loc>>
           ELSE /\ pc' = "loop"
                /\ loc' = l
                /\ ret' = NoCall
    /\ UNCHANGED <<bin_level, kern, committed, pending>>

\* one iteration of the loop: the INSERT, count += 1, the batch commit
AddPointsRow ==
    /\ pc = "loop"
    /\ loc.i < LoopLen(loc)
    /\ LET r == add_points_row(loc)
       IN  IF r.st # "ok"
           THEN /\ committed' = AfterRollback
                /\ pending' = EmptyBag
                /\ pc' = "idle"
                /\ loc' = NoCall
                /\ ret' = AddPointsDone(loc, r.st)
           ELSE /\ IF CommitNow(loc.count + 1)
                   THEN /\ committed' = CommitRows(committed, pending (+) SetToBag({r.row}))
                        /\ pending' = EmptyBag
                        /\ loc' = [loc EXCEPT !.i = @ + 1, !.count = 0, !.commits = @ + 1]
                   ELSE /\ pending' = pending (+) SetToBag({r.row})
                        /\ loc' = [loc EXCEPT !.i = @ + 1, !.count = @ + 1]
                        /\ UNCHANGED committed
                /\ UNCHANGED <<pc, ret>>
    /\ UNCHANGED <<bin_level, kern>>

\* an iteration whose INSERT raises: the exception leaves the with block
AddPointsRowError(err) ==
    /\ pc = "loop"
    /\ loc.i < LoopLen(loc)
    /\ add_points_row(loc).st = "ok"
    /\ committed' = AfterRollback
    /\ pending' = EmptyBag
    /\ pc' = "idle"
    /\ loc' = NoCall
    /\ ret' = AddPointsDone(loc, err)
    /\ UNCHANGED <<bin_level, kern>>

\* the loop is over: the with block commits and add_points returns
AddPointsReturn ==
    /\ pc = "loop"
    /\ loc.i = LoopLen(loc)
    /\ committed' = CommitRows(committed, pending)
    /\ pending' = EmptyBag
    /\ pc' = "idle"
    /\ loc' = NoCall
    /\ ret' = AddPointsDone(loc, "ok")
    /\ UNCHANGED <<bin_level, kern>>

\* radial_query(center_ra, center_dec, radius)
RadialQuery(cra, cdec, radius) ==
    /\ pc = "idle"
    /\ ret' = Done("radial_query", [center_ra |-> cra, center_dec |-> cdec, radius |-> radius],
                   radial_query(bin_level, kern, committed (+) pending, cra, cdec, radius))
    /\ IndexUnchanged

(***************************************************************************)
(* The index: points added one by one and by short lists, and queried.     *)
(***************************************************************************)
\* the errors an INSERT ends with
InsertErrors == {"NotImplementedError", "sqlite3.Error"}

\* the rows add_point is called with
PointArgs == {<<Num(1), Num(0)>>, <<Num(2), Num(0)>>, <<Num(359), Num(0)>>,
              <<Num(0), Num(1)>>, <<Num(361), Num(0)>>, <<None, None>>}

\* the lists add_points is called with
RaList(n) == List([j \in 1..n |-> j % 3])
DecList(n) == List([j \in 1..n |-> 0])
PointsList(n) == List([j \in 1..n |-> IF j % 2 = 1 THEN <<0, 1>> ELSE <<359, 0>>])
RaListArgs == {None} \cup {RaList(n) : n \in 0..MaxListLen}
DecListArgs == {None} \cup {DecList(n) : n \in 0..MaxListLen}
PointsListArgs == {None} \cup {PointsList(n) : n \in 0..MaxListLen}

\* the query discs
Centers == {<<0, 0>>, <<1, 0>>}
Radii == 0..MaxRadius

\* the longest list of a call
ArgLen(ra, dec, points) ==
    LET n(a) == IF IsList(a) THEN PyLen(a) ELSE 0
    IN  SeqMax({n(ra), n(dec), n(points)})

Init ==
    /\ bin_level = MaxBinLevel
    /\ kern \in Kernels
    /\ committed = EmptyBag
    /\ pending = EmptyBag
    /\ pc = "idle"
    /\ loc = NoCall
    /\ ret = NoCall

Next ==
    \/ \E row \in PointArgs : number_of_points < MaxRows /\ AddPoint(row)
    \/ \E row \in PointArgs, err \in InsertErrors : AddPointError(row, err)
    \/ \E ra \in RaListArgs, dec \in DecListArgs, points \in PointsListArgs :
          /\ number_of_points + ArgLen(ra, dec, points) <= MaxRows
          /\ AddPointsCall(ra, dec, points)
    \/ AddPointsRow
    \/ \E err \in InsertErrors : AddPointsRowError(err)
    \/ AddPointsReturn
    \/ \E c \in Centers, radius \in Radii : RadialQuery(c[1], c[2], radius)

Spec == Init /\ [][Next]_vars

(***************************************************************************)
(* Bulk insertion: add_points called with lists longer than a batch, on a  *)
(* store that already holds a row.                                         *)
(***************************************************************************)
BulkSizes == (1..MaxExtra) \cup {BatchSize + d : d \in 0..MaxExtra}

\* [1] * n with [0] * n or [0] * (n - 1), or [(1, 0)] * n
BulkArgs ==
    {<<Rep(n, 1), Rep(n, 0), None>> : n \in BulkSizes} \cup
    {<<Rep(BatchSize + MaxExtra, 1), Rep(BatchSize + MaxExtra - 1, 0), None>>} \cup
    {<<None, None, Rep(n, <<1, 0>>)>> : n \in BulkSizes}

InitBulk ==
    /\ bin_level = 0
    /\ kern = CHOOSE kz \in Kernels : TRUE
    /\ committed = SetToBag({<<Num(0), Num(0)>>})
    /\ pending = EmptyBag
    /\ pc = "idle"
    /\ loc = NoCall
    /\ ret = NoCall

NextBulk ==
    \/ \E a \in BulkArgs : number_of_points < MaxRows /\ AddPointsCall(a[1], a[2], a[3])
    \/ AddPointsRow
    \/ \E err \in InsertErrors : AddPointsRowError(err)
    \/ AddPointsReturn

SpecBulk == InitBulk /\ [][NextBulk]_vars

(***************************************************************************)
(* Properties of bulk insertion, checked under SpecBulk.                   *)
(***************************************************************************)
\* add_points has ended with an error
AddPointsAborted == ret.op = "add_points" /\ ret.st # "ok"

\* add_points has returned normally
AddPointsReturned == ret.op = "add_points" /\ ret.st = "ok"

\* C1: inside add_points the open transaction is committed each time 50,000
\* rows have been inserted since the previous commit: between two
\* iterations fewer than 50,000 rows are uncommitted, and a call that
\* returns after n rows has made floor(n / 50000) commits inside the loop.
C1_CommitEvery50000 ==
    /\ pc = "loop" => BagCardinality(pending) < BatchSize
    /\ AddPointsReturned => ret.commits = ret.rows \div BatchSize

\* C2 as claimed: after an add_points call that an error aborted,
\* number_of_points is what it was before the call, wherever the failing
\* row stood.
C2_AbortLeavesNoRow ==
    AddPointsAborted => number_of_points = ret.before

\* C2 as amended: an aborted add_points call leaves the rows of the batches
\* it had already committed and none of the rows inserted after the last of
\* those commits.  With r rows inserted before the error, number_of_points
\* is its value before the call plus 50,001 * floor(r / 50,001); it is the
\* value before the call when the error comes within the first 50,001 rows.
C2_AbortKeepsCommittedBatches ==
    AddPointsAborted =>
        /\ pending = EmptyBag
        /\ number_of_points = ret.before + (BatchSize + 1) * (ret.rows \div (BatchSize + 1))
        /\ ret.rows <= BatchSize => number_of_points = ret.before

\* An error after the first batch commit, with a row inserted since: the
\* batch stays, the row is gone.
C2_Witness ==
    /\ AddPointsAborted
    /\ ret.rows = BatchSize + 2
    /\ ret.commits = 1
    /\ number_of_points = ret.before + BatchSize + 1

\* C3: when add_points returns normally for n points, given as parallel ra
\* and dec lists of length n or as a list of n pairs, number_of_points has
\* grown by exactly n and no row is left uncommitted.
C3_AllRowsPresent ==
    AddPointsReturned =>
        LET n == IF Truthy(ret.a.ra) THEN PyLen(ret.a.ra) ELSE PyLen(ret.a.points)
        IN  (Truthy(ret.a.ra) => PyLen(ret.a.dec) = n) =>
                /\ number_of_points = ret.before + n
                /\ pending = EmptyBag

\* A call that returned after more rows than a batch holds, once for each
\* input form.
C3_Witness ==
    /\ AddPointsReturned
    /\ Truthy(ret.a.points)
    /\ ret.rows = BatchSize + 2
    /\ ret.commits = 1
    /\ number_of_points = ret.before + BatchSize + 2

(***************************************************************************)
(* Properties of the radial query, checked under Spec.                     *)
(***************************************************************************)
\* radial_query has returned a list
QueryReturned == ret.op = "radial_query" /\ ret.st = "ok"

\* the pixels of the cover the kernel gives for a disc: the union, over
\* both zones and the 50 pairs of each, of the half-open intervals [lo, hi)
CoverPixels(cra, cdec, radius) ==
    UNION {k_radial_query_it(bin_level, kern, cra, cdec, radius, 2 * j, z) ..
           (k_radial_query_it(bin_level, kern, cra, cdec, radius, 2 * j + 1, z) - 1) :
               j \in 0..(NPairs - 1), z \in {0, 1}}

\* the upper bounds of the cover's non-empty intervals
CoverUpperBounds(cra, cdec, radius) ==
    {k_radial_query_it(bin_level, kern, cra, cdec, radius, 2 * j + 1, z) :
        j \in {i \in 0..(NPairs - 1) :
                  \E z \in {0, 1} :
                      k_radial_query_it(bin_level, kern, cra, cdec, radius, 2 * i, z)
                          < k_radial_query_it(bin_level, kern, cra, cdec, radius, 2 * i + 1, z)},
        z \in {0, 1}}

\* ang2ipix of a stored row with numbers in both columns
RowPixel(r) == ang2ipix(bin_level, r[1], r[2], None).val.v

\* the chord-distance metric between a stored row and the query's center
RowMetric(r) == k_sindist(r[1].v, r[2].v, ret.a.center_ra, ret.a.center_dec)

\* 10^6 * sin^2(radius / 2) of the query
QueryThreshold == HavMicro[ret.a.radius + 1]

\* the rows of the table
StoredRows == BagToSet(committed (+) pending)

\* C4: radial_query returns a stored point exactly when its pixel lies in
\* one of the cover's half-open intervals and its metric is strictly below
\* sin^2(radius / 2); a point whose metric equals the threshold is not
\* returned, nor is one whose pixel is an interval's upper bound and lies in
\* no interval.
C4_ReturnedIffCoveredAndNear ==
    QueryReturned =>
        \A r \in StoredRows :
            /\ (r \in DOMAIN ret.val) <=>
                   /\ RowPixel(r) \in CoverPixels(ret.a.center_ra, ret.a.center_dec, ret.a.radius)
                   /\ RowMetric(r) < QueryThreshold
            /\ RowMetric(r) = QueryThreshold => r \notin DOMAIN ret.val
            /\ (/\ RowPixel(r) \in CoverUpperBounds(ret.a.center_ra, ret.a.center_dec, ret.a.radius)
                /\ RowPixel(r) \notin CoverPixels(ret.a.center_ra, ret.a.center_dec, ret.a.radius))
                   => r \notin DOMAIN ret.val

\* A query that returned one stored point and left out another that is
\* nearer than the radius but sits on the upper bound of an interval.
C4_Witness ==
    /\ QueryReturned
    /\ \E r \in StoredRows : r \in DOMAIN ret.val
    /\ \E r \in StoredRows :
          /\ RowMetric(r) < QueryThreshold
          /\ RowPixel(r) \in CoverUpperBounds(ret.a.center_ra, ret.a.center_dec, ret.a.radius)
          /\ RowPixel(r) \notin CoverPixels(ret.a.center_ra, ret.a.center_dec, ret.a.radius)
          /\ r \notin DOMAIN ret.val

\* positions of the sky around the query centers
SkyGrid == {<<ra, dec>> : ra \in (0..(MaxRadius + 2)) \cup ((358 - MaxRadius)..361),
                          dec \in (-MaxRadius - 1)..(MaxRadius + 1)}

\* The assumption of C5: the cover holds the pixel of every position that
\* is nearer to the center than the radius.
CoverConservative(cra, cdec, radius) ==
    \A p \in SkyGrid :
        k_sindist(p[1], p[2], cra, cdec) < HavMicro[radius + 1]
            => ang2ipix(bin_level, Num(p[1]), Num(p[2]), None).val.v
                   \in CoverPixels(cra, cdec, radius)

\* C5: if the kernel's cover is conservative, every stored point whose
\* metric is strictly below sin^2(radius / 2) is in the result, as often as
\* it is stored.
C5_NoFalseNegatives ==
    (QueryReturned /\ CoverConservative(ret.a.center_ra, ret.a.center_dec, ret.a.radius)) =>
        \A r \in StoredRows :
            RowMetric(r) < QueryThreshold =>
                /\ r \in DOMAIN ret.val
                /\ ret.val[r] = CopiesIn(r, committed (+) pending)

\* A conservative cover, and a point stored twice and returned twice whose
\* pixel is not the center's.
C5_Witness ==
    /\ QueryReturned
    /\ CoverConservative(ret.a.center_ra, ret.a.center_dec, ret.a.radius)
    /\ \E r \in StoredRows :
          /\ RowMetric(r) < QueryThreshold
          /\ RowPixel(r) # k_ang2ipix(bin_level, ret.a.center_ra, ret.a.center_dec)
          /\ CopiesIn(r, committed) = 2
          /\ r \in DOMAIN ret.val
          /\ ret.val[r] = 2

(***************************************************************************)
(* Properties of the QLSC methods, checked under SpecQLSC.                 *)
(***************************************************************************)
RaInRange(v) == 0 <= v /\ v <= 360
DecInRange(v) == -90 <= v /\ v <= 90
XYInRange(v) == -1 <= v /\ v <= 1
IpixInRange(v) == 0 <= v /\ v < nbins(bin_level)

\* C6: ang2ipix given several points in one call, any of them with dec
\* outside [-90, 90] or ra outside [0, 360], fails with ValueError and calls
\* no kernel routine; given one scalar pair out of range it does not raise
\* and calls the kernel with the normalized pair.
C6_VectorRejectsScalarNormalizes ==
    ret.op = "ang2ipix" =>
        LET ra == ret.a.ra
            dec == ret.a.dec
            points == ret.a.points
            lists == IsList(ra) /\ IsList(dec) /\ IsNone(points)
            rows == IsNone(ra) /\ IsNone(dec) /\ ~IsNone(points)
            scalar == IsNum(ra) /\ IsNum(dec) /\ IsNone(points)
            n == k_normalize_ang(ra.v, dec.v)
        IN  /\ (lists /\ ( \/ \E d \in PyElems(dec) : ~DecInRange(d)
                           \/ \E r \in PyElems(ra) : ~RaInRange(r)))
                   => ret.st = "ValueError" /\ ret.kc = <<>>
            /\ (rows /\ \E q \in PyElems(points) : ~RaInRange(q[1]) \/ ~DecInRange(q[2]))
                   => ret.st = "ValueError" /\ ret.kc = <<>>
            /\ (scalar /\ (~RaInRange(ra.v) \/ ~DecInRange(dec.v)))
                   => /\ ret.st = "ok"
                      /\ ret.kc = << <<"ang2ipix", n[1], n[2]>> >>
                      /\ RaInRange(n[1]) /\ DecInRange(n[2])

\* C7: ipix2xy fails with ValueError, without calling the kernel, for every
\* ipix outside [0, nbins); only an ipix inside the range reaches the kernel.
C7_Ipix2xyBoundsChecked ==
    ret.op = "ipix2xy" =>
        /\ ~IpixInRange(ret.a.ipix.v) => ret.st = "ValueError" /\ ret.kc = <<>>
        /\ \A j \in 1..Len(ret.kc) : IpixInRange(ret.kc[j][2])

\* C8: xy2ang fails with ValueError whenever x or y is outside [-1, 1], for
\* the scalar pair and for every pair of 'points'; the kernel is called
\* only with x and y both in [-1, 1].
C8_Xy2angRangeChecked ==
    ret.op = "xy2ang" =>
        /\ (IsNone(ret.a.points) /\ IsNum(ret.a.x) /\ IsNum(ret.a.y)
              /\ (~XYInRange(ret.a.x.v) \/ ~XYInRange(ret.a.y.v)))
               => ret.st = "ValueError"
        /\ (IsList(ret.a.points) /\ IsNone(ret.a.x) /\ IsNone(ret.a.y)
              /\ \E q \in PyElems(ret.a.points) : ~XYInRange(q[1]) \/ ~XYInRange(q[2]))
               => ret.st = "ValueError"
        /\ \A j \in 1..Len(ret.kc) : XYInRange(ret.kc[j][2]) /\ XYInRange(ret.kc[j][3])

\* C9: xy2ang accepts exactly one input form: it fails when x or y comes
\* with 'points' and when neither a full (x, y) pair nor 'points' is given;
\* it goes on only with x and y and no 'points', or 'points' and neither.
C9_Xy2angOneForm ==
    ret.op = "xy2ang" =>
        /\ ((~IsNone(ret.a.x) \/ ~IsNone(ret.a.y)) /\ ~IsNone(ret.a.points)) => ret.st # "ok"
        /\ (IsNone(ret.a.points) /\ (IsNone(ret.a.x) \/ IsNone(ret.a.y))) => ret.st # "ok"
        /\ ret.st = "ok" =>
               \/ ~IsNone(ret.a.x) /\ ~IsNone(ret.a.y) /\ IsNone(ret.a.points)
               \/ IsNone(ret.a.x) /\ IsNone(ret.a.y) /\ ~IsNone(ret.a.points)

\* C10: face_number takes exactly one of (ra, dec) and ipix: with only an
\* ipix in [0, nbins), 0 included, it answers from that pixel; with an ipix
\* together with ra or dec it fails, for ipix 0 too; with only (ra, dec) it
\* reaches the kernel only for ra in [0, 360] and dec in [-90, 90].
C10_FaceNumberOneOf ==
    ret.op = "face_number" =>
        /\ (IsNone(ret.a.ra) /\ IsNone(ret.a.dec) /\ IsNum(ret.a.ipix) /\ IpixInRange(ret.a.ipix.v))
               => /\ ret.st = "ok"
                  /\ ret.kc[1] = <<"ipix2ang", ret.a.ipix.v>>
        /\ (IsNum(ret.a.ipix) /\ (~IsNone(ret.a.ra) \/ ~IsNone(ret.a.dec))) => ret.st # "ok"
        /\ (IsNone(ret.a.ipix) /\ IsNum(ret.a.ra) /\ IsNum(ret.a.dec) /\ ret.st = "ok")
               => RaInRange(ret.a.ra.v) /\ DecInRange(ret.a.dec.v)

\* the back-projection of the corner (cx, cy) of the cell of pixel ipix
BackProjection(ipix, cx, cy) ==
    KRes(<<"xy2ang", cx, cy, k_ipix2xy(bin_level, ipix)[1]>>)

\* the four corners of the cell of pixel ipix, from the lower-left one
\* counter-clockwise, each mapped back to the sky
CellCorners(ipix) ==
    LET x == k_ipix2xy(bin_level, ipix)[2]
        y == k_ipix2xy(bin_level, ipix)[3]
    IN  <<BackProjection(ipix, x, y), BackProjection(ipix, x + 2, y),
          BackProjection(ipix, x + 2, y + 2), BackProjection(ipix, x, y + 2)>>

\* C11: ipix2polygon returns the back-projections of (x,y), (x+d,y),
\* (x+d,y+d), (x,y+d): these 4 vertices when duplicate_endpoint is false,
\* and 5 vertices, the fifth equal to the first, when it is true.
C11_PolygonVertices ==
    (ret.op = "ipix2polygon" /\ ret.st = "ok") =>
        /\ ~ret.a.duplicate_endpoint => ret.val.v = CellCorners(ret.a.ipix.v)
        /\ ret.a.duplicate_endpoint =>
               /\ Len(ret.val.v) = 5
               /\ ret.val.v = CellCorners(ret.a.ipix.v) \o <<CellCorners(ret.a.ipix.v)[1]>>

(***************************************************************************)
(* Properties of the arguments of add_points, checked under Spec.          *)
(***************************************************************************)
\* the arguments of the finished add_points call
GivenRa == ~IsNone(ret.a.ra)
GivenDec == ~IsNone(ret.a.dec)
GivenPoints == ~IsNone(ret.a.points)

\* the finished add_points call raised ValueError and inserted nothing
RejectedUntouched ==
    /\ ret.st = "ValueError"
    /\ ret.rows = 0
    /\ number_of_points = ret.before

\* C12: add_points fails with ValueError and inserts nothing when none of
\* ra, dec, points is given, when only one of ra and dec is given, and when
\* 'points' comes together with ra or dec (either one or both).
C12_OneFormOrValueError ==
    ret.op = "add_points" =>
        /\ (~GivenRa /\ ~GivenDec /\ ~GivenPoints) => RejectedUntouched
        /\ (~GivenPoints /\ (GivenRa # GivenDec)) => RejectedUntouched
        /\ (GivenPoints /\ (GivenRa \/ GivenDec)) => RejectedUntouched

\* C13: add_points with ra and dec sequences of different lengths, ra the
\* longer or the shorter one, fails with ValueError and inserts no row.
C13_LengthMismatchRejected ==
    (/\ ret.op = "add_points"
     /\ IsList(ret.a.ra) /\ IsList(ret.a.dec) /\ ~GivenPoints
     /\ PyLen(ret.a.ra) # PyLen(ret.a.dec)) => RejectedUntouched

(***************************************************************************)
(* Properties of the scheme, checked under SpecScheme.                     *)
(***************************************************************************)
\* C14: ipixcenter is idempotent at a fixed depth: the value f_d(p) it
\* returns for a pixel id p is a fixed point of f_d.
C14_IpixcenterIdempotent ==
    (ret.op = "ipixcenter" /\ ret.st = "ok") =>
        ipixcenter_value(ret.val.v, ret.a.depth) = ret.val.v

\* a call at a depth of 2 or more that cleared low bits of a pixel id with
\* bits above them, and so moved it
C14_Witness ==
    /\ ret.op = "ipixcenter" /\ ret.st = "ok"
    /\ ret.a.depth >= 2
    /\ ret.val.v >= 2^(2 * ret.a.depth)
    /\ ret.val.v # k_ang2ipix(bin_level, ret.a.ra, ret.a.dec)

C16_ConstructorErrors ==
    ret.op = "__init__" =>
        /\ ret.a.bin_level \notin 0..30 =>
               ret.st = "ValueError" /\ ret.kc = <<>> /\ ~Constructed
        /\ ret.a.bin_level \in 0..30 =>
               /\ ret.kc = << <<"init_q3c", 2^ret.a.bin_level>> >>
               /\ ret.a.handle => ret.st = "ok" /\ Constructed
               /\ ~ret.a.handle =>
                      ret.st \notin {"ok", "ValueError"} /\ ~Constructed

C16_Witness ==
    /\ ret.op = "__init__" /\ ret.a.bin_level = 31 /\ ret.st = "ValueError"

\* C19: ipixcenter rejects a depth outside [1, 30] with ValueError, and for
\* a depth in [1, 30] its result is a pixel id of the scheme, in
\* [0, nbins), also when depth is greater than bin_level.
C19_IpixcenterInRange ==
    ret.op = "ipixcenter" =>
        /\ ret.a.depth \notin 1..30 => ret.st = "ValueError"
        /\ ret.a.depth \in 1..30 =>
               ret.st = "ok" /\ 0 <= ret.val.v /\ ret.val.v < nbins(bin_level)

(***************************************************************************)
(* Properties of the store over whole runs, checked under Spec.            *)
(***************************************************************************)
\* C17: the store is never pruned.  Between calls no transaction is open,
\* so the visible rows are the committed ones; no step takes a row out of
\* the committed table, a successful add_point adds exactly one row, and
\* after add_points, returned or failed, number_of_points is not less than
\* before the call.
C17_NeverPruned ==
    /\ [](pc = "idle" => pending = EmptyBag)
    /\ []((ret.op = "add_point" /\ ret.st = "ok") => number_of_points = ret.before + 1)
    /\ [](ret.op \in {"add_point", "add_points"} => number_of_points >= ret.before)
    /\ [][committed \sqsubseteq committed']_vars

\* an add_points call whose INSERT failed, on a store that held rows: the
\* rows are all still there
C17_Witness ==
    /\ ret.op = "add_points" /\ ret.st \in InsertErrors
    /\ ret.before > 0
    /\ number_of_points = ret.before

\* no stored point matches the disc of the finished query
NoStoredMatch ==
    \A r \in StoredRows :
        ~(/\ IsNum(r[1]) /\ IsNum(r[2])
          /\ _radial_match(bin_level, kern, r[1], r[2],
                           ret.a.center_ra, ret.a.center_dec, ret.a.radius))

\* C18: radial_query is a read-only pass: it changes neither the stored
\* points nor the scheme, it returns an empty list, without raising,
\* when no stored point matches, and the same query made again on the same
\* store returns the same list.
C18_QueryReadOnly ==
    /\ [](ret.op = "radial_query" =>
            /\ NoStoredMatch => (ret.st = "ok" /\ ret.val = EmptyBag)
            /\ ret = Done("radial_query", ret.a,
                          radial_query(bin_level, kern, committed (+) pending,
                                       ret.a.center_ra, ret.a.center_dec, ret.a.radius)))
    /\ [][(ret'.op = "radial_query" /\ pc = "idle") =>
             /\ committed' = committed /\ pending' = pending
             /\ bin_level' = bin_level /\ kern' = kern]_vars

====
